---- MODULE Spec2Model ----
(***************************************************************************)
(* Model of main.py: the date-window resolver (get_date_range), the        *)
(* message-id range finder (TelegramGroup._find_message_id), the history   *)
(* fetcher (TelegramGroup.fetch_history) and the exporters (save_json,     *)
(* save_csv).  The chat client (telethon's iter_messages) is the           *)
(* environment: a chat is a sequence of timestamps, message id i carrying  *)
(* timestamp chat[i].                                                      *)
(***************************************************************************)
EXTENDS Integers, Sequences, FiniteSets, TLC

\* Bounds of the model.
MaxId == 3        \* a chat holds at most MaxId messages, ids 1..MaxId
MaxTime == 2      \* message timestamps range over 0..MaxTime
MaxLimit == 1     \* --limit ranges over None and 0..MaxLimit
MaxDay == 2       \* date strings name the days 0..MaxDay

\* Python's None for integer-valued fields, and for string-valued fields.
None == -1
NoneStr == "None"
\* timedelta(days=1), in hours.
DayLen == 24

VARIABLES
    chat,             \* the group's messages on the server: chat[id] = timestamp
    offsetInclusive,  \* whether the client's backward walk from offset_date also
                      \* yields messages dated exactly offset_date
    pc,               \* position of the TelegramGroup's caller
    start_date,       \* fetch_history's arguments
    end_date,
    limit,
    min_id,           \* results of the two _find_message_id scans
    max_id,
    minPos,           \* messages consumed from the min_id scan's iterator
    maxPos,           \* messages consumed from the max_id scan's iterator
    fetchPos,         \* messages consumed from the main fetch iterator
    history,          \* self.history
    file,             \* what the last save_json / save_csv wrote
    args,             \* parsed command line (day, start, end)
    now,              \* datetime.now(timezone.utc), in hours
    window            \* what get_date_range returned

vars == << chat, offsetInclusive, pc, start_date, end_date, limit, min_id, max_id,
           minPos, maxPos, fetchPos, history, file, args, now, window >>

dateVars == << args, now, window >>

-----------------------------------------------------------------------------
\* Small helpers.

Min2(a, b) == IF a <= b THEN a ELSE b

IdSeq(n) == [i \in 1..n |-> i]

Reverse(s) == [i \in 1..Len(s) |-> s[Len(s) + 1 - i]]

\* Python truthiness of an Optional[int]: `not x` holds for None and for 0.
Falsy(x) == x = None \/ x = 0

Times == 0..MaxTime

Chats == UNION { [1..n -> Times] : n \in 0..MaxId }

Limits == {None} \cup (0..MaxLimit)

-----------------------------------------------------------------------------
\* The messages the client yields, as test data derived from the id.

SenderIdOf(i) == 100 + (i % 2)

SenderUsernameOf(i) == IF i % 2 = 1 THEN "user1" ELSE NoneStr

ReplyToOf(i) == IF i % 2 = 0 THEN i - 1 ELSE None

\* Message text as a sequence of characters; LF and CR stand for "\n" and "\r".
TextOf(i) ==
    CASE i % 3 = 1 -> << "a" >>
      [] i % 3 = 2 -> << "a", "LF", "b" >>
      [] OTHER     -> << "a", "CR", "LF", "b" >>

\* datetime.isoformat()
IsoFormat(d) == << "iso", d >>

\* The Message dataclass built in fetch_history's loop body.
MessageObj(c, i) ==
    [ id              |-> i,
      date            |-> c[i],
      date_str        |-> IsoFormat(c[i]),
      sender_id       |-> SenderIdOf(i),
      sender_username |-> SenderUsernameOf(i),
      reply_to_msg_id |-> ReplyToOf(i),
      message         |-> TextOf(i) ]

-----------------------------------------------------------------------------
\* The chat client's iterators, each the sequence of ids it yields.

\* iter_messages(group, reverse=True, offset_date=offset): oldest first, from offset on.
IterForwardFromDate(c, offset) ==
    SelectSeq(IdSeq(Len(c)), LAMBDA i : c[i] >= offset)

\* Mutant of IterBackwardFromDate: the walk runs oldest first (a stray reverse=True).
IterBackwardAscending(c, offset, incl) ==
    SelectSeq(IdSeq(Len(c)), LAMBDA i : c[i] < offset \/ (incl /\ c[i] = offset))

\* iter_messages(group, offset_date=offset): newest first, the messages before offset.
IterBackwardFromDate(c, offset, incl) ==
    Reverse(SelectSeq(IdSeq(Len(c)),
                      LAMBDA i : c[i] < offset \/ (incl /\ c[i] = offset)))

\* iter_messages(group, min_id=lo, max_id=hi, limit=lim, reverse=True): oldest first,
\* the messages with lo < id < hi (both bounds exclusive), at most lim of them.
IterIdRange(c, lo, hi, lim) ==
    LET all == SelectSeq(IdSeq(Len(c)), LAMBDA i : lo < i /\ i < hi)
    IN  IF lim = None THEN all ELSE SubSeq(all, 1, Min2(lim, Len(all)))

-----------------------------------------------------------------------------
\* The predicates of the three loops.

\* `if start_date <= message.date < end_date` of the min_id scan
MinScanMatch(d, s, e) == s <= d /\ d < e

\* Mutant of MaxScanMatch: the min_id scan's predicate copied to the max_id scan.
MaxScanMatchWindow(d, s, e) == s <= d /\ d < e

\* Mutant of MaxScanMatch: the end of the window taken as inclusive.
MaxScanMatchLe(d, s, e) == d <= e

\* `if message.date < end_date` of the max_id scan
MaxScanMatch(d, s, e) == d < e

\* Mutant of FetchKeep: the end of the window taken as inclusive.
FetchKeepLe(d, s, e) == s <= d /\ d <= e

\* `if start_date <= message.date < end_date` of the main fetch loop
FetchKeep(d, s, e) == s <= d /\ d < e

\* the min_id argument passed to the main fetch
FetchMinArg(lo) == lo

\* the max_id argument passed to the main fetch
FetchMaxArg(hi) == hi + 1

MinStream == IterForwardFromDate(chat, start_date)

MaxStream == IterBackwardFromDate(chat, end_date, offsetInclusive)

FetchStream == IterIdRange(chat, FetchMinArg(min_id), FetchMaxArg(max_id), limit)

-----------------------------------------------------------------------------
\* The exporters.

\* json.dump(..., default=str): a Message is no JSON type, so the encoder calls
\* default(obj) = str(obj) and writes the dataclass repr as a JSON string.
JsonDefault(m) == [ type |-> "string", text |-> << "Message", m >> ]

JsonDump(h) == [ i \in 1..Len(h) |-> JsonDefault(h[i]) ]

RECURSIVE Sanitize(_)
\* msg.message.replace("\n", " ").replace("\r", "")
Sanitize(t) ==
    IF t = << >> THEN << >>
    ELSE IF Head(t) = "LF" THEN << " " >> \o Sanitize(Tail(t))
    ELSE IF Head(t) = "CR" THEN Sanitize(Tail(t))
    ELSE << Head(t) >> \o Sanitize(Tail(t))

CsvHeader == << "id", "date", "sender_id", "sender_username", "reply_to", "message" >>

CsvRow(m) == << m.id, m.date_str, m.sender_id, m.sender_username,
                m.reply_to_msg_id, Sanitize(m.message) >>

NoFile == [ format |-> "none", body |-> << >> ]

-----------------------------------------------------------------------------
\* get_date_range.

NoneDate == [ t |-> None, tz |-> "none" ]

\* datetime.strptime(s, "%Y-%m-%d"): midnight of the day, timezone-naive
Strptime(d) == [ t |-> d * DayLen, tz |-> "naive" ]

\* Mutant of ReplaceTzUtc: the tzinfo replacement forgotten.
ReplaceTzKeep(x) == x

\* .replace(tzinfo=timezone.utc)
ReplaceTzUtc(x) == [ x EXCEPT !.tz = "UTC" ]

\* x + timedelta(days=n)
AddDays(x, n) == [ x EXCEPT !.t = @ + n * DayLen ]

\* datetime.now(timezone.utc)
UtcNow(n) == [ t |-> n, tz |-> "UTC" ]

get_date_range(a, n) ==
    IF a.day # None
    THEN LET s == ReplaceTzUtc(Strptime(a.day))
         IN  [ start |-> s, end |-> AddDays(s, 1) ]
    ELSE IF a.start = None
    THEN [ start |-> NoneDate, end |-> NoneDate ]
    ELSE [ start |-> ReplaceTzUtc(Strptime(a.start)),
           end   |-> IF a.end # None THEN ReplaceTzUtc(Strptime(a.end))
                                     ELSE UtcNow(n) ]

Days == 0..MaxDay

DayArgs == {None} \cup Days

Nows == 0..((MaxDay + 1) * DayLen)

-----------------------------------------------------------------------------
\* Initial states.

FetchInit ==
    /\ pc = "idle"
    /\ start_date = 0
    /\ end_date = 0
    /\ limit = None
    /\ min_id = None
    /\ max_id = None
    /\ minPos = 0
    /\ maxPos = 0
    /\ fetchPos = 0
    /\ history = << >>
    /\ file = NoFile

DateInit ==
    /\ args = [ day |-> None, start |-> None, end |-> None ]
    /\ now = 0
    /\ window = [ start |-> NoneDate, end |-> NoneDate ]

Init ==
    /\ chat \in Chats
    /\ offsetInclusive \in BOOLEAN
    /\ FetchInit
    /\ DateInit

-----------------------------------------------------------------------------
\* TelegramGroup.fetch_history, one step per message consumed.

\* the call, up to the first iter_messages of the min_id scan
FetchHistory(s, e, l) ==
    /\ pc \in {"idle", "done"}
    /\ start_date' = s
    /\ end_date' = e
    /\ limit' = l
    /\ min_id' = None
    /\ max_id' = None
    /\ minPos' = 0
    /\ maxPos' = 0
    /\ fetchPos' = 0
    /\ pc' = "min_scan"
    /\ UNCHANGED << chat, offsetInclusive, history, file, dateVars >>

\* one iteration of the min_id scan's loop
MinScanNext ==
    /\ pc = "min_scan"
    /\ minPos < Len(MinStream)
    /\ LET m == MinStream[minPos + 1]
       IN  /\ minPos' = minPos + 1
           /\ IF MinScanMatch(chat[m], start_date, end_date)
              THEN min_id' = m /\ pc' = "max_scan"
              ELSE UNCHANGED << min_id, pc >>
    /\ UNCHANGED << chat, offsetInclusive, start_date, end_date, limit, max_id,
                    maxPos, fetchPos, history, file, dateVars >>

\* the min_id scan's iterator is exhausted: return min_id (None)
MinScanEnd ==
    /\ pc = "min_scan"
    /\ minPos = Len(MinStream)
    /\ pc' = "max_scan"
    /\ UNCHANGED << chat, offsetInclusive, start_date, end_date, limit, min_id, max_id,
                    minPos, maxPos, fetchPos, history, file, dateVars >>

\* one iteration of the max_id scan's loop
MaxScanNext ==
    /\ pc = "max_scan"
    /\ maxPos < Len(MaxStream)
    /\ LET m == MaxStream[maxPos + 1]
       IN  /\ maxPos' = maxPos + 1
           /\ IF MaxScanMatch(chat[m], start_date, end_date)
              THEN max_id' = m /\ pc' = "check"
              ELSE UNCHANGED << max_id, pc >>
    /\ UNCHANGED << chat, offsetInclusive, start_date, end_date, limit, min_id,
                    minPos, fetchPos, history, file, dateVars >>

\* the max_id scan's iterator is exhausted: return max_id (None)
MaxScanEnd ==
    /\ pc = "max_scan"
    /\ maxPos = Len(MaxStream)
    /\ pc' = "check"
    /\ UNCHANGED << chat, offsetInclusive, start_date, end_date, limit, min_id, max_id,
                    minPos, maxPos, fetchPos, history, file, dateVars >>

\* `if not min_id or not max_id: return []`
RangeNotFound ==
    /\ pc = "check"
    /\ Falsy(min_id) \/ Falsy(max_id)
    /\ pc' = "done"
    /\ UNCHANGED << chat, offsetInclusive, start_date, end_date, limit, min_id, max_id,
                    minPos, maxPos, fetchPos, history, file, dateVars >>

\* `self.history = []` and the main iter_messages call
BeginFetch ==
    /\ pc = "check"
    /\ ~ (Falsy(min_id) \/ Falsy(max_id))
    /\ history' = << >>
    /\ pc' = "fetch"
    /\ UNCHANGED << chat, offsetInclusive, start_date, end_date, limit, min_id, max_id,
                    minPos, maxPos, fetchPos, file, dateVars >>

\* one iteration of the main fetch loop
FetchNext ==
    /\ pc = "fetch"
    /\ fetchPos < Len(FetchStream)
    /\ LET m == FetchStream[fetchPos + 1]
       IN  /\ fetchPos' = fetchPos + 1
           /\ IF FetchKeep(chat[m], start_date, end_date)
              THEN history' = Append(history, MessageObj(chat, m))
              ELSE UNCHANGED history
    /\ UNCHANGED << chat, offsetInclusive, pc, start_date, end_date, limit, min_id,
                    max_id, minPos, maxPos, file, dateVars >>

\* the main fetch iterator is exhausted: fetch_history returns
FetchEnd ==
    /\ pc = "fetch"
    /\ fetchPos = Len(FetchStream)
    /\ pc' = "done"
    /\ UNCHANGED << chat, offsetInclusive, start_date, end_date, limit, min_id, max_id,
                    minPos, maxPos, fetchPos, history, file, dateVars >>

SaveJson ==
    /\ pc = "done"
    /\ file' = [ format |-> "json", body |-> JsonDump(history) ]
    /\ pc' = "saved"
    /\ UNCHANGED << chat, offsetInclusive, start_date, end_date, limit, min_id, max_id,
                    minPos, maxPos, fetchPos, history, dateVars >>

SaveCsv ==
    /\ pc = "done"
    /\ file' = [ format |-> "csv",
                 body   |-> << CsvHeader >> \o [ i \in 1..Len(history) |-> CsvRow(history[i]) ] ]
    /\ pc' = "saved"
    /\ UNCHANGED << chat, offsetInclusive, start_date, end_date, limit, min_id, max_id,
                    minPos, maxPos, fetchPos, history, dateVars >>

Call == \E s \in Times, e \in Times, l \in Limits : FetchHistory(s, e, l)

Next ==
    \/ Call
    \/ MinScanNext
    \/ MinScanEnd
    \/ MaxScanNext
    \/ MaxScanEnd
    \/ RangeNotFound
    \/ BeginFetch
    \/ FetchNext
    \/ FetchEnd
    \/ SaveJson
    \/ SaveCsv

Spec == Init /\ [][Next]_vars

-----------------------------------------------------------------------------
\* The date-window resolver on its own: every command line and every current time.

InitDate ==
    /\ chat = << >>
    /\ offsetInclusive = FALSE
    /\ FetchInit
    /\ args \in [ day : DayArgs, start : DayArgs, end : DayArgs ]
    /\ now \in Nows
    /\ window = [ start |-> NoneDate, end |-> NoneDate ]

GetDateRange ==
    /\ pc = "idle"
    /\ window' = get_date_range(args, now)
    /\ pc' = "resolved"
    /\ UNCHANGED << chat, offsetInclusive, start_date, end_date, limit, min_id, max_id,
                    minPos, maxPos, fetchPos, history, file, args, now >>

NextDate == GetDateRange

SpecDate == InitDate /\ [][NextDate]_vars

-----------------------------------------------------------------------------
\* Vocabulary of the properties.

\* Ids increase with time: a later id never carries an earlier timestamp.
Monotonic(c) == \A i, j \in 1..Len(c) : i <= j => c[i] <= c[j]

SetMin(S) == CHOOSE x \in S : \A y \in S : x <= y

SetMax(S) == CHOOSE x \in S : \A y \in S : x >= y

\* json.load of what json.dump wrote: each JSON value parses to itself, a JSON
\* string to a string.
JsonLoad(body) == body

IsPrefix(s, t) == Len(s) <= Len(t) /\ SubSeq(t, 1, Len(s)) = s

\* ids of the chat's messages with start_date <= timestamp < end_date
InWindowIds == { i \in 1..Len(chat) : start_date <= chat[i] /\ chat[i] < end_date }

\* ids of the chat's messages with timestamp < end_date
BeforeEndIds == { i \in 1..Len(chat) : chat[i] < end_date }

\* ids of the chat's messages with timestamp < start_date
BeforeStartIds == { i \in 1..Len(chat) : chat[i] < start_date }

RangeFound == ~ (Falsy(min_id) \/ Falsy(max_id))

\* the window the caller is required to pass: start < end
ProperWindow == start_date < end_date

\* the records of the chat's in-window messages, in ascending id order
WindowRecords ==
    LET w == SelectSeq(IdSeq(Len(chat)), LAMBDA i : i \in InWindowIds)
    IN  [ k \in 1..Len(w) |-> MessageObj(chat, w[k]) ]

\* what the main fetch loop leaves with limit=None for the found id range
UnlimitedRecords ==
    LET w == SelectSeq(IterIdRange(chat, FetchMinArg(min_id), FetchMaxArg(max_id), None),
                       LAMBDA i : FetchKeep(chat[i], start_date, end_date))
    IN  [ k \in 1..Len(w) |-> MessageObj(chat, w[k]) ]

-----------------------------------------------------------------------------
\* C1: with no limit, on a chat whose ids increase with time, a finished
\* fetch_history(start, end) with start < end leaves in history exactly the chat's messages with
\* start <= timestamp < end, each once and in ascending id order (the
\* messages carrying the found min_id and max_id included).
C1_HistoryIsWindow ==
    (pc = "done" /\ ProperWindow /\ limit = None /\ Monotonic(chat)) =>
        history = WindowRecords

\* C2: every step that changes history either empties it (the reset before the
\* main loop) or appends exactly one record, the Message of a chat message whose
\* timestamp satisfies start <= timestamp < end; a message outside the window
\* leaves history as it was.
C2_AppendedInWindow ==
    [][ history' # history =>
          \/ history' = << >>
          \/ /\ Len(history') = Len(history) + 1
             /\ SubSeq(history', 1, Len(history)) = history
             /\ LET r == history'[Len(history')]
                IN  /\ start_date <= r.date
                    /\ r.date < end_date
                    /\ r.id \in 1..Len(chat)
                    /\ r = MessageObj(chat, r.id) ]_vars

\* C2 witness: the main loop has dropped a message whose timestamp is outside
\* the window and then appended the next message of the stream.
C2_Witness ==
    /\ pc = "fetch"
    /\ \E k \in 1..(fetchPos - 1) :
          /\ ~ FetchKeep(chat[FetchStream[k]], start_date, end_date)
          /\ FetchKeep(chat[FetchStream[k + 1]], start_date, end_date)
          /\ history # << >>
          /\ history[Len(history)].id = FetchStream[fetchPos]

\* C3: after a fetch_history call in which the min_id scan or the max_id scan
\* found no message, history holds zero records, save_json writes [] and
\* save_csv writes only the header row.
C3_NoRangeNoRecords ==
    /\ (pc \in {"done", "saved"} /\ ProperWindow /\ ~ RangeFound) => history = << >>
    /\ (pc = "saved" /\ ProperWindow /\ ~ RangeFound /\ file.format = "json") =>
          file.body = << >>
    /\ (pc = "saved" /\ ProperWindow /\ ~ RangeFound /\ file.format = "csv") =>
          file.body = << CsvHeader >>

\* C4: the file save_json wrote parses back to an array of Len(history) JSON
\* objects, the i-th carrying the id, message and sender_id of the i-th record.
C4_JsonRoundTrip ==
    (pc = "saved" /\ file.format = "json") =>
        LET parsed == JsonLoad(file.body)
        IN  /\ Len(parsed) = Len(history)
            /\ \A i \in 1..Len(history) :
                  /\ parsed[i].type = "object"
                  /\ parsed[i].id = history[i].id
                  /\ parsed[i].message = history[i].message
                  /\ parsed[i].sender_id = history[i].sender_id

\* C5 as claimed: when no message has start <= timestamp < end, both scans
\* return absent.
C5_BothAbsent ==
    (pc = "check" /\ ProperWindow /\ InWindowIds = {}) =>
        (min_id = None /\ max_id = None)

\* C5 amended: when no message has start <= timestamp < end, the min_id scan
\* returns absent; on a chat whose ids increase with time the max_id scan
\* returns the largest id with timestamp < end, and absent only when the chat
\* has no message before end.
C5_MinAbsentMaxBeforeEnd ==
    (pc = "check" /\ InWindowIds = {}) =>
        /\ min_id = None
        /\ Monotonic(chat) =>
              IF BeforeEndIds = {} THEN max_id = None
                                   ELSE max_id = SetMax(BeforeEndIds)

\* C5 witness: an empty window in a chat with messages older than start; the
\* finder returned (absent, found).
C5_Witness ==
    /\ pc = "check"
    /\ start_date < end_date
    /\ InWindowIds = {}
    /\ Monotonic(chat)
    /\ BeforeStartIds # {}
    /\ min_id = None
    /\ max_id # None

\* C6: on a chat whose ids increase with time, whenever the window holds a
\* message the min_id scan returns the smallest id with timestamp in
\* [start, end) and the max_id scan the largest id with timestamp < end.
C6_ScansFindBounds ==
    (pc = "check" /\ Monotonic(chat) /\ InWindowIds # {}) =>
        /\ min_id = SetMin(InWindowIds)
        /\ max_id = SetMax(BeforeEndIds)

\* C6 witness: both scans returned on a window holding a message, in a chat
\* with a message older than start, and the max_id scan had to pass over a
\* message dated exactly end.
C6_Witness ==
    /\ pc = "check"
    /\ Monotonic(chat)
    /\ InWindowIds # {}
    /\ BeforeStartIds # {}
    /\ maxPos >= 2
    /\ min_id # None
    /\ max_id # None

\* C7 as claimed: every window get_date_range returns has start < end, both
\* instants timezone-aware UTC, and --day D gives [D 00:00Z, D+1 00:00Z).
C7_WindowOrdered ==
    (pc = "resolved" /\ window.start # NoneDate) =>
        /\ window.start.t < window.end.t
        /\ window.start.tz = "UTC"
        /\ window.end.tz = "UTC"
        /\ args.day # None =>
              /\ window.start.t = args.day * DayLen
              /\ window.end.t = (args.day + 1) * DayLen

\* C7 amended: every window get_date_range returns has both instants
\* timezone-aware UTC; --day D gives exactly [D 00:00Z, D+1 00:00Z), so
\* start < end; from --start S the window starts at S 00:00Z and ends at the
\* --end date's 00:00Z, or at the current time without --end, so start < end
\* holds exactly when S 00:00Z is earlier than that end.
C7_WindowUtcDayExact ==
    (pc = "resolved" /\ window.start # NoneDate) =>
        /\ window.start.tz = "UTC"
        /\ window.end.tz = "UTC"
        /\ args.day # None =>
              /\ window.start.t = args.day * DayLen
              /\ window.end.t = (args.day + 1) * DayLen
              /\ window.start.t < window.end.t
        /\ (args.day = None /\ args.end # None) =>
              (window.start.t < window.end.t <=> args.start < args.end)
        /\ (args.day = None /\ args.end = None) =>
              (window.start.t < window.end.t <=> args.start * DayLen < now)

\* C7 witness: --start with an --end that is not later; the window returned
\* is inverted or empty.
C7_Witness ==
    /\ pc = "resolved"
    /\ args.day = None
    /\ args.start # None
    /\ args.end # None
    /\ window.start.tz = "UTC"
    /\ window.start.t >= window.end.t

\* C8: after fetch_history with a limit L, history holds at most L records,
\* and they are a prefix of what the call leaves with no limit.
C8_LimitCapsHistory ==
    (pc = "done" /\ ProperWindow /\ limit # None) =>
        /\ Len(history) <= limit
        /\ RangeFound => IsPrefix(history, UnlimitedRecords)

\* C9: a scan consumes no message after the first one that satisfies its
\* predicate, and a min_id scan whose first message has timestamp >= end
\* consumes no further message.
C9_EarlyExit ==
    /\ \A k \in 1..(minPos - 1) :
          ~ MinScanMatch(chat[MinStream[k]], start_date, end_date)
    /\ \A k \in 1..(maxPos - 1) :
          ~ MaxScanMatch(chat[MaxStream[k]], start_date, end_date)
    /\ (ProperWindow /\ minPos >= 1 /\ chat[MinStream[1]] >= end_date) => minPos = 1

\* C10: on a chat whose ids increase with time, whenever the min_id scan found
\* a message the max_id scan found one too and min_id <= max_id; the main
\* fetch loop never runs on an inverted id range, and the logged count
\* max_id - min_id + 1 is at least 1.
C10_RangeNotInverted ==
    /\ (pc = "check" /\ Monotonic(chat) /\ min_id # None) =>
          (max_id # None /\ min_id <= max_id)
    /\ (pc = "fetch" /\ Monotonic(chat)) =>
          (min_id <= max_id /\ max_id - min_id + 1 >= 1)

\* C10 witness: the main fetch loop runs on a range found in a chat that also
\* holds a message older than start.
C10_Witness ==
    /\ pc = "fetch"
    /\ Monotonic(chat)
    /\ BeforeStartIds # {}
    /\ min_id < max_id

====
